---- MODULE Spec2Model ----
(***************************************************************************)
(* Model of 3lab/crud.py: a FastAPI service with five CRUD routes for each *)
(* of two tables (movies, genres) over one asyncpg connection pool.        *)
(*                                                                         *)
(* Every route handler is                                                  *)
(*     async with app.state.pool.acquire() as connection:                  *)
(*         <one awaited SQL statement>                                     *)
(*         <return a model object, or raise HTTPException(404)>            *)
(* so a request passes through: body validation (pydantic, before the      *)
(* route function runs), acquire, the statement, and the exit of the       *)
(* "async with" block which releases the connection whether the block      *)
(* returned or raised.  Each of these is an await point, so requests       *)
(* interleave between them.                                                *)
(***************************************************************************)
EXTENDS Integers, Sequences, FiniteSets, TLC

(***************************************************************************)
(* Bounds of the model.                                                    *)
(***************************************************************************)
\* Number of requests that can be in flight at once.
NumHandlers == 2
\* Largest id a table's sequence hands out; creates stop there.
MaxId == 2
\* Connections the pool may have checked out at once.
PoolSize == 1

Handlers == 1..NumHandlers
PathIds  == 1..MaxId

\* The two resources; the genre routes mirror the movie routes.
Resources == {"movies", "genres"}

(***************************************************************************)
(* JSON text and values.  A string is a sequence of characters, so that    *)
(* reading an integer out of a string is computed, not assumed.            *)
(***************************************************************************)
Dune     == <<"D", "u", "n", "e">>
Solaris  == <<"S", "o", "l">>
SciFi    == <<"S", "F">>
Updated  == <<"U", "p", "d">>
High     == <<"h", "i">>
Text98   == <<"9", "8">>

JStr(s) == [t |-> "str", s |-> s]
JInt(n) == [t |-> "int", n |-> n]
JNull   == [t |-> "null"]

DigitVal == [c \in {"0", "1", "2", "3", "4", "5", "6", "7", "8", "9"} |->
               CASE c = "0" -> 0 [] c = "1" -> 1 [] c = "2" -> 2 [] c = "3" -> 3
                 [] c = "4" -> 4 [] c = "5" -> 5 [] c = "6" -> 6 [] c = "7" -> 7
                 [] c = "8" -> 8 [] c = "9" -> 9]

IsDecimal(s) == Len(s) > 0 /\ \A i \in 1..Len(s) : s[i] \in DOMAIN DigitVal

RECURSIVE DecimalValue(_)
DecimalValue(s) ==
    IF Len(s) = 0 THEN 0
    ELSE 10 * DecimalValue(SubSeq(s, 1, Len(s) - 1)) + DigitVal[s[Len(s)]]

(***************************************************************************)
(* MovieBase / GenreBase: name: str, description: str, popularity: int,    *)
(* all required.  pydantic accepts a JSON string for a str field, and for  *)
(* an int field a JSON integer or a string of decimal digits, which it     *)
(* converts; null and a missing field are rejected.                        *)
(***************************************************************************)
Fields == {"name", "description", "popularity"}

StrFieldOk(v) == v.t = "str"

\* Mutant of IntFieldOk: any JSON string passes for the int field.
IntFieldOk_any_string(v) == v.t \in {"int", "str"}

IntFieldOk(v) == \/ v.t = "int"
                 \/ v.t = "str" /\ IsDecimal(v.s)

MovieBase(body) ==
    /\ Fields \subseteq DOMAIN body
    /\ StrFieldOk(body.name)
    /\ StrFieldOk(body.description)
    /\ IntFieldOk(body.popularity)

\* The validated model object (movie.name, movie.description, movie.popularity).
MovieCreate(body) ==
    [name        |-> body.name.s,
     description |-> body.description.s,
     popularity  |-> IF body.popularity.t = "int" THEN body.popularity.n
                     ELSE DecimalValue(body.popularity.s)]

\* Movie(id=..., **movie.dict())
Movie(id, m) ==
    [id |-> id, name |-> m.name, description |-> m.description,
     popularity |-> m.popularity]

(***************************************************************************)
(* Request inputs.                                                         *)
(***************************************************************************)
NoBody == [nobody |-> TRUE]

Bodies ==
    { [name |-> JStr(Dune),    description |-> JStr(SciFi),   popularity |-> JInt(95)],
      [name |-> JStr(Solaris), description |-> JStr(Updated), popularity |-> JInt(98)],
      [name |-> JStr(Solaris), description |-> JStr(Updated), popularity |-> JStr(Text98)],
      [name |-> JStr(Dune),    description |-> JStr(SciFi),   popularity |-> JStr(High)],
      [name |-> JStr(Dune),    description |-> JStr(SciFi)],
      [name |-> JNull,         description |-> JStr(SciFi),   popularity |-> JInt(95)] }

Requests ==
    {[op |-> "list", res |-> r, id |-> 0, body |-> NoBody] : r \in Resources}
    \cup {[op |-> "get", res |-> r, id |-> i, body |-> NoBody] :
             r \in Resources, i \in PathIds}
    \cup {[op |-> "create", res |-> r, id |-> 0, body |-> b] :
             r \in Resources, b \in Bodies}
    \cup {[op |-> "update", res |-> r, id |-> i, body |-> b] :
             r \in Resources, i \in PathIds, b \in Bodies}
    \cup {[op |-> "delete", res |-> r, id |-> i, body |-> NoBody] :
             r \in Resources, i \in PathIds}

NoReq  == [op |-> "none", res |-> "none", id |-> 0, body |-> NoBody]
NoRes  == [kind |-> "none"]
NoResp == [status |-> 0]

HasBody(rq) == rq.op \in {"create", "update"}

VARIABLES
    lifespanPc,  \* position of lifespan(): "init", "created", "yielded", "closed"
    pool,        \* app.state.pool: "none", "open", "closed"
    inUse,       \* connections checked out of the pool
    listener,    \* the HTTP listener: "off", "on", "stopped"
    closes,      \* how many times pool.close() has run
    table,       \* table[r]: the set of rows of table r
    nextval,     \* nextval[r]: next value of the id sequence of table r
    pc,          \* pc[h]: "idle", "route", "acquired", "executed", "done"
    req,         \* req[h]: the request handler h is serving or served last
    result,      \* result[h]: what the awaited statement returned or raised
    resp,        \* resp[h]: the response of the request
    holds,       \* holds[h]: connections handler h has checked out
    stmts,       \* stmts[h]: SQL statements run for the current request
    everId,      \* everId[r]: ids of all rows that ever existed in table r
    stale,       \* stale[h]: the row h created was updated or deleted since
    deleted      \* deleted[r]: ids whose delete returned success

vars == <<lifespanPc, pool, inUse, listener, closes, table, nextval, pc, req,
          result, resp, holds, stmts, stale, everId, deleted>>

dbVars    == <<table, nextval, everId, deleted>>
procVars  == <<lifespanPc, pool, listener, closes>>

Init ==
    /\ lifespanPc = "init"
    /\ pool = "none"
    /\ inUse = 0
    /\ listener = "off"
    /\ closes = 0
    /\ table = [r \in Resources |-> {}]
    /\ nextval = [r \in Resources |-> 1]
    /\ pc = [h \in Handlers |-> "idle"]
    /\ req = [h \in Handlers |-> NoReq]
    /\ result = [h \in Handlers |-> NoRes]
    /\ resp = [h \in Handlers |-> NoResp]
    /\ holds = [h \in Handlers |-> 0]
    /\ stmts = [h \in Handlers |-> 0]
    /\ everId = [r \in Resources |-> {}]
    /\ stale = [h \in Handlers |-> FALSE]
    /\ deleted = [r \in Resources |-> {}]

(***************************************************************************)
(* lifespan(): the pool is created, then the application serves, then the  *)
(* pool is closed.  The server starts its listener once lifespan has       *)
(* yielded, and resumes lifespan after the listener has stopped and the    *)
(* requests in flight have finished.                                       *)
(***************************************************************************)
create_pool ==
    /\ lifespanPc = "init"
    /\ lifespanPc' = "created"
    /\ pool' = "open"
    /\ UNCHANGED <<inUse, listener, closes, dbVars, pc, req, result, resp, holds, stmts, stale>>

\* Mutant of lifespan_yield: lifespan yields without waiting for create_pool.
lifespan_yield_before_pool ==
    /\ lifespanPc \in {"init", "created"}
    /\ lifespanPc' = "yielded"
    /\ listener' = "on"
    /\ UNCHANGED <<pool, inUse, closes, dbVars, pc, req, result, resp, holds, stmts, stale>>

lifespan_yield ==
    /\ lifespanPc = "created"
    /\ lifespanPc' = "yielded"
    /\ listener' = "on"
    /\ UNCHANGED <<pool, inUse, closes, dbVars, pc, req, result, resp, holds, stmts, stale>>

\* The process is asked to stop: the listener stops accepting requests.
Shutdown ==
    /\ listener = "on"
    /\ listener' = "stopped"
    /\ UNCHANGED <<lifespanPc, pool, inUse, closes, dbVars, pc, req, result, resp,
                   holds, stmts, stale>>

pool_close ==
    /\ lifespanPc = "yielded"
    /\ listener = "stopped"
    /\ \A h \in Handlers : pc[h] \in {"idle", "done"}
    /\ lifespanPc' = "closed"
    /\ pool' = "closed"
    /\ closes' = closes + 1
    /\ UNCHANGED <<inUse, listener, dbVars, pc, req, result, resp, holds, stmts, stale>>

(***************************************************************************)
(* The SQL statements, on a table given as its set of rows.                *)
(***************************************************************************)
Matching(tbl, id) == {row \in tbl : row.id = id}

\* All orders a set of rows can be returned in.
Orderings(S) ==
    {q \in [1..Cardinality(S) -> S] : \A i, j \in DOMAIN q : q[i] = q[j] => i = j}

\* "SELECT * FROM movies": every row, in an order the database chooses.
SelectAll(tbl) == Orderings(tbl)

\* "SELECT * FROM movies WHERE id = $1" through fetchrow: the first row or None.
SelectById(tbl, id) ==
    IF Matching(tbl, id) = {} THEN {[kind |-> "none"]}
    ELSE {[kind |-> "row", row |-> row] : row \in Matching(tbl, id)}

\* The id column's default: the next value of the table's sequence.
Nextval(n) == n

\* "INSERT INTO movies (name, description, popularity) VALUES ($1, $2, $3)
\*  RETURNING id"
Insert(tbl, id, m) == tbl \cup {Movie(id, m)}

\* Mutant of Update: the WHERE clause is lost and every row is overwritten.
Update_every_row(tbl, m, id) == {Movie(row.id, m) : row \in tbl}

\* Mutant of Update: popularity is added to the stored value, not replaced.
Update_adds_popularity(tbl, m, id) ==
    {IF row.id = id
     THEN [id |-> row.id, name |-> m.name, description |-> m.description,
           popularity |-> row.popularity + m.popularity]
     ELSE row : row \in tbl}

\* "UPDATE movies SET name = $1, description = $2, popularity = $3 WHERE id = $4"
Update(tbl, m, id) ==
    {IF row.id = id THEN Movie(row.id, m) ELSE row : row \in tbl}

\* Mutant of Delete: the row stays in the table.
Delete_keeps_row(tbl, id) == tbl

\* "DELETE FROM movies WHERE id = $1"
Delete(tbl, id) == {row \in tbl : row.id # id}

\* The status string execute() returns: "UPDATE n" / "DELETE n".
Tag(cmd, n) == [kind |-> "tag", cmd |-> cmd, n |-> n]

(***************************************************************************)
(* What each route function returns or raises once its statement has       *)
(* returned.  Each stands for the movie and the genre function.            *)
(***************************************************************************)
Ok(body)       == [status |-> 200, body |-> body]
\* raise HTTPException(status_code=404, detail="Movie not found")
NotFound(r)    == [status |-> 404,
                   detail |-> IF r = "movies" THEN "Movie not found"
                              ELSE "Genre not found"]
\* The framework's answer to a body that fails validation.
Invalid        == [status |-> 422, detail |-> "validation error"]
\* The framework's answer to an exception that is not an HTTPException.
ServerError    == [status |-> 500, detail |-> "Internal Server Error"]

\* Mutant of read_movies: the last row is left out of the answer.
read_movies_drops_last(r, res) ==
    Ok([i \in 1..(Len(res.rows) - 1) |->
          [id |-> res.rows[i].id, name |-> res.rows[i].name,
           description |-> res.rows[i].description,
           popularity |-> res.rows[i].popularity]])

read_movies(r, res) ==
    Ok([i \in DOMAIN res.rows |->
          [id |-> res.rows[i].id, name |-> res.rows[i].name,
           description |-> res.rows[i].description,
           popularity |-> res.rows[i].popularity]])

\* Mutant of read_movie: description is filled from the name column.
read_movie_wrong_column(r, res) ==
    IF res.kind = "row"
    THEN Ok([id |-> res.row.id, name |-> res.row.name,
             description |-> res.row.name,
             popularity |-> res.row.popularity])
    ELSE NotFound(r)

read_movie(r, res) ==
    IF res.kind = "row"
    THEN Ok([id |-> res.row.id, name |-> res.row.name,
             description |-> res.row.description,
             popularity |-> res.row.popularity])
    ELSE NotFound(r)

\* Mutant of create_movie: name and description are exchanged in the answer.
create_movie_swapped(r, movie, res) ==
    Ok([id |-> res.val, name |-> movie.description, description |-> movie.name,
        popularity |-> movie.popularity])

create_movie(r, movie, res) == Ok(Movie(res.val, movie))

\* Mutant of update_movie: the "UPDATE 0" check is missing.
update_movie_unchecked(r, movie_id, updated_movie, res) ==
    Ok(Movie(movie_id, updated_movie))

update_movie(r, movie_id, updated_movie, res) ==
    IF res = Tag("UPDATE", 0) THEN NotFound(r)
    ELSE Ok(Movie(movie_id, updated_movie))

delete_movie(r, movie_id, res) ==
    IF res = Tag("DELETE", 0) THEN NotFound(r)
    ELSE Ok([message |-> IF r = "movies" THEN "Movie deleted" ELSE "Genre deleted"])

\* The outcome of a route function; an exception of the statement that is
\* not an HTTPException becomes the server's 500 response.
Outcome(rq, res) ==
    CASE res.kind = "error"  -> ServerError
      [] rq.op = "list"      -> read_movies(rq.res, res)
      [] rq.op = "get"       -> read_movie(rq.res, res)
      [] rq.op = "create"    -> create_movie(rq.res, MovieCreate(rq.body), res)
      [] rq.op = "update"    -> update_movie(rq.res, rq.id, MovieCreate(rq.body), res)
      [] rq.op = "delete"    -> delete_movie(rq.res, rq.id, res)

(***************************************************************************)
(* A request.                                                              *)
(***************************************************************************)
\* Creates accepted but not yet inserted, per table (bounds the sequence).
PendingCreates(r) ==
    Cardinality({h \in Handlers :
        pc[h] \in {"route", "acquired"} /\ req[h].op = "create" /\ req[h].res = r})

\* The request arrives; a body that does not validate is answered by the
\* framework and the route function is not called.
Receive(h, rq) ==
    /\ listener = "on"
    /\ pc[h] \in {"idle", "done"}
    /\ rq.op = "create" => nextval[rq.res] + PendingCreates(rq.res) <= MaxId
    /\ req' = [req EXCEPT ![h] = rq]
    /\ result' = [result EXCEPT ![h] = NoRes]
    /\ stmts' = [stmts EXCEPT ![h] = 0]
    /\ stale' = [stale EXCEPT ![h] = FALSE]
    /\ IF HasBody(rq) /\ ~MovieBase(rq.body)
       THEN /\ pc' = [pc EXCEPT ![h] = "done"]
            /\ resp' = [resp EXCEPT ![h] = Invalid]
       ELSE /\ pc' = [pc EXCEPT ![h] = "route"]
            /\ resp' = [resp EXCEPT ![h] = NoResp]
    /\ UNCHANGED <<procVars, inUse, holds, dbVars>>

\* async with app.state.pool.acquire() as connection: waits for a free
\* connection; on a pool that is not open it raises.
acquire(h) ==
    /\ pc[h] = "route"
    /\ IF pool = "open"
       THEN /\ inUse < PoolSize
            /\ inUse' = inUse + 1
            /\ holds' = [holds EXCEPT ![h] = @ + 1]
            /\ pc' = [pc EXCEPT ![h] = "acquired"]
            /\ resp' = resp
       ELSE /\ pc' = [pc EXCEPT ![h] = "done"]
            /\ resp' = [resp EXCEPT ![h] = ServerError]
            /\ UNCHANGED <<inUse, holds>>
    /\ UNCHANGED <<procVars, req, result, stmts, stale, dbVars>>

\* Handler g's insert returned id for a row of table r.
Created(g, r, id) ==
    /\ req[g].op = "create" /\ req[g].res = r
    /\ result[g] = [kind |-> "val", val |-> id]

Ran(h, res) ==
    /\ pc' = [pc EXCEPT ![h] = "executed"]
    /\ result' = [result EXCEPT ![h] = res]
    /\ stmts' = [stmts EXCEPT ![h] = @ + 1]
    /\ UNCHANGED <<procVars, inUse, holds, req, resp, deleted>>

\* movies = await connection.fetch("SELECT * FROM movies")
fetch(h) ==
    /\ pc[h] = "acquired" /\ req[h].op = "list"
    /\ \E rows \in SelectAll(table[req[h].res]) :
          Ran(h, [kind |-> "rows", rows |-> rows])
    /\ UNCHANGED <<table, nextval, everId, stale>>

\* movie = await connection.fetchrow("SELECT ... WHERE id = $1", id)
fetchrow(h) ==
    /\ pc[h] = "acquired" /\ req[h].op = "get"
    /\ \E res \in SelectById(table[req[h].res], req[h].id) : Ran(h, res)
    /\ UNCHANGED <<table, nextval, everId, stale>>

\* new_movie_id = await connection.fetchval("INSERT ... RETURNING id", ...)
fetchval(h) ==
    /\ pc[h] = "acquired" /\ req[h].op = "create"
    /\ LET r  == req[h].res
           id == Nextval(nextval[r])
       IN /\ table' = [table EXCEPT ![r] = Insert(@, id, MovieCreate(req[h].body))]
          /\ nextval' = [nextval EXCEPT ![r] = @ + 1]
          /\ everId' = [everId EXCEPT ![r] = @ \cup {id}]
          /\ Ran(h, [kind |-> "val", val |-> id])
    /\ UNCHANGED stale

\* result = await connection.execute("UPDATE ... WHERE id = $4", ...)
execute_update(h) ==
    /\ pc[h] = "acquired" /\ req[h].op = "update"
    /\ LET r == req[h].res
           n == Cardinality(Matching(table[r], req[h].id))
       IN /\ table' = [table EXCEPT ![r] = Update(@, MovieCreate(req[h].body), req[h].id)]
          /\ stale' = [g \in Handlers |-> stale[g] \/ (n > 0 /\ Created(g, r, req[h].id))]
          /\ Ran(h, Tag("UPDATE", n))
    /\ UNCHANGED <<nextval, everId>>

\* result = await connection.execute("DELETE ... WHERE id = $1", movie_id)
execute_delete(h) ==
    /\ pc[h] = "acquired" /\ req[h].op = "delete"
    /\ LET r == req[h].res
           n == Cardinality(Matching(table[r], req[h].id))
       IN /\ table' = [table EXCEPT ![r] = Delete(@, req[h].id)]
          /\ stale' = [g \in Handlers |-> stale[g] \/ (n > 0 /\ Created(g, r, req[h].id))]
          /\ Ran(h, Tag("DELETE", n))
    /\ UNCHANGED <<nextval, everId>>

\* The awaited statement raises (the connection is lost, the server rejects
\* the statement): nothing is written.
statement_fails(h) ==
    /\ pc[h] = "acquired"
    /\ Ran(h, [kind |-> "error"])
    /\ UNCHANGED <<table, nextval, everId, stale>>

\* Mutant of release: the connection is given back only when the block
\* returns, not when it raises.
release_on_return_only(h) ==
    /\ pc[h] = "executed"
    /\ LET out  == Outcome(req[h], result[h])
           back == IF out.status = 200 THEN 1 ELSE 0
       IN /\ inUse' = inUse - back
          /\ holds' = [holds EXCEPT ![h] = @ - back]
          /\ resp' = [resp EXCEPT ![h] = out]
          /\ deleted' = [deleted EXCEPT ![req[h].res] =
                           IF req[h].op = "delete" /\ out.status = 200
                           THEN @ \cup {req[h].id} ELSE @]
    /\ pc' = [pc EXCEPT ![h] = "done"]
    /\ UNCHANGED <<procVars, req, result, stmts, stale, table, nextval, everId>>

\* The "async with" block is left, by return or by raise: the connection
\* goes back to the pool and the response is the function's outcome.
release(h) ==
    /\ pc[h] = "executed"
    /\ inUse' = inUse - 1
    /\ holds' = [holds EXCEPT ![h] = @ - 1]
    /\ pc' = [pc EXCEPT ![h] = "done"]
    /\ resp' = [resp EXCEPT ![h] = Outcome(req[h], result[h])]
    /\ deleted' = [deleted EXCEPT ![req[h].res] =
                     IF req[h].op = "delete" /\ resp'[h].status = 200
                     THEN @ \cup {req[h].id} ELSE @]
    /\ UNCHANGED <<procVars, req, result, stmts, stale, table, nextval, everId>>

\* The process: lifespan and the listener.
Lifecycle ==
    \/ create_pool
    \/ lifespan_yield
    \/ Shutdown
    \/ pool_close

\* The handlers in H serve requests, handler h those in R[h].
Serve(H, R) ==
    \/ \E h \in H : \E rq \in R[h] : Receive(h, rq)
    \/ \E h \in H : acquire(h)
    \/ \E h \in H : fetch(h)
    \/ \E h \in H : fetchrow(h)
    \/ \E h \in H : fetchval(h)
    \/ \E h \in H : execute_update(h)
    \/ \E h \in H : execute_delete(h)
    \/ \E h \in H : statement_fails(h)
    \/ \E h \in H : release(h)

\* Concurrent requests on the movie routes for id 1, with one valid and one
\* invalid body; list requests arrive on handler 1.
ConcurrentBodies ==
    { [name |-> JStr(Dune), description |-> JStr(SciFi), popularity |-> JInt(95)],
      [name |-> JStr(Dune), description |-> JStr(SciFi)] }

ConcurrentRequests ==
    [h \in Handlers |->
        {rq \in Requests :
            /\ rq.res = "movies"
            /\ rq.id \in {0, 1}
            /\ rq.body \in ConcurrentBodies \cup {NoBody}
            /\ rq.op = "list" => h = 1}]

Next == Lifecycle \/ Serve(Handlers, ConcurrentRequests)

Spec == Init /\ [][Next]_vars

\* Every request on both tables, issued one after another to a process that
\* keeps serving.
SerialRequests == [h \in Handlers |-> Requests]

NextSerial == create_pool \/ lifespan_yield \/ Serve({1}, SerialRequests)

SpecSerial == Init /\ [][NextSerial]_vars

(***************************************************************************)
(* Properties.                                                             *)
(***************************************************************************)
\* Handler h runs its statement in this step / leaves the "async with" block.
Runs(h)    == pc[h] = "acquired" /\ pc'[h] = "executed"
Returns(h) == pc[h] = "executed" /\ pc'[h] = "done"

Ids(tbl) == {row.id : row \in tbl}

\* A body that has the declared JSON types: two strings and an integer.
SchemaValid(body) ==
    /\ Fields \subseteq DOMAIN body
    /\ body.name.t = "str"
    /\ body.description.t = "str"
    /\ body.popularity.t = "int"

\* The object with the given id and exactly the submitted values.
Submitted(id, body) ==
    [id |-> id, name |-> body.name.s, description |-> body.description.s,
     popularity |-> body.popularity.n]

\* C1: a create with a valid payload inserts exactly one row, whose id was
\* never the id of a row of that table before, and returns 200 with that id
\* and exactly the submitted name, description and popularity.
C1_CreateStep(h) ==
    LET r == req[h].res IN
    /\ (Runs(h) /\ req[h].op = "create" /\ result'[h].kind # "error") =>
          /\ result'[h].kind = "val"
          /\ result'[h].val \in Int
          /\ result'[h].val \notin everId[r]
          /\ result'[h].val \notin Ids(table[r])
          /\ Cardinality(table'[r]) = Cardinality(table[r]) + 1
          /\ table[r] \subseteq table'[r]
          /\ SchemaValid(req[h].body) =>
                table'[r] \ table[r] = {Submitted(result'[h].val, req[h].body)}
    /\ (Returns(h) /\ req[h].op = "create" /\ result[h].kind = "val"
          /\ SchemaValid(req[h].body)) =>
          resp'[h] = [status |-> 200, body |-> Submitted(result[h].val, req[h].body)]

C1_CreateReturnsSubmittedWithFreshId ==
    [][/\ \A h \in Handlers : C1_CreateStep(h)
       /\ \A r \in Resources : Ids(table[r]) \cup everId[r] \subseteq everId'[r]]_vars

\* A create has returned id 2 although the row with id 1 was deleted before.
C1_Witness ==
    \E h \in Handlers :
        /\ pc[h] = "done" /\ req[h].op = "create" /\ resp[h].status = 200
        /\ SchemaValid(req[h].body)
        /\ resp[h].body.id = 2
        /\ 1 \in deleted[req[h].res]

\* What a get-by-id of id on table r answers in the current state.
GetNow(r, id) == {read_movie(r, res) : res \in SelectById(table[r], id)}

\* C2: while the id a create returned has not been updated or deleted, a
\* get-by-id of it answers 200 with an object equal to the create response.
C2_GetAfterCreateEqualsResponse ==
    \A h \in Handlers :
        (/\ pc[h] = "done" /\ req[h].op = "create" /\ resp[h].status = 200
         /\ ~stale[h])
        => GetNow(req[h].res, resp[h].body.id) = {resp[h]}

\* One request has created a row and another has read it back unchanged.
C2_Witness ==
    \E h, g \in Handlers :
        /\ pc[h] = "done" /\ req[h].op = "create" /\ resp[h].status = 200
        /\ ~stale[h]
        /\ pc[g] = "done" /\ req[g].op = "get" /\ req[g].res = req[h].res
        /\ req[g].id = resp[h].body.id
        /\ resp[g] = resp[h]

\* C3: get-by-id, update and delete of an id that is in no row of the table
\* leave both tables as they are and answer 404 with the resource's
\* "not found" detail.
C3_MissingStep(h) ==
    LET r == req[h].res IN
    /\ (/\ Runs(h) /\ req[h].op \in {"get", "update", "delete"}
        /\ req[h].id \notin Ids(table[r]) /\ result'[h].kind # "error") =>
          /\ table' = table
          /\ result'[h] \in {[kind |-> "none"], Tag("UPDATE", 0), Tag("DELETE", 0)}
    /\ (/\ Returns(h)
        /\ result[h] \in {[kind |-> "none"], Tag("UPDATE", 0), Tag("DELETE", 0)}) =>
          /\ resp'[h].status = 404
          /\ resp'[h].detail = IF r = "movies" THEN "Movie not found"
                               ELSE "Genre not found"

C3_MissingIdIsNotFound == [][\A h \in Handlers : C3_MissingStep(h)]_vars

\* An update of a missing id was answered 404 and the table is still empty.
C3_Witness ==
    \E h \in Handlers :
        /\ pc[h] = "done" /\ req[h].op = "update" /\ resp[h].status = 404
        /\ table[req[h].res] = {}

\* C4: once a delete of an id has returned success, a get-by-id of that id
\* answers 404 in every later state.
C4_DeletedStaysNotFound ==
    \A r \in Resources : \A id \in deleted[r] :
        \A answer \in GetNow(r, id) : answer.status = 404

\* Id 1 was deleted, a later create got id 2, and a get of id 1 answered 404.
C4_Witness ==
    \E h \in Handlers :
        /\ pc[h] = "done" /\ req[h].op = "get" /\ req[h].id = 1
        /\ resp[h].status = 404
        /\ 1 \in deleted[req[h].res]
        /\ 2 \in Ids(table[req[h].res])

\* C5: on every reachable table, for every id in it and every valid payload,
\* a second application of the same update changes nothing the first did
\* not, and both answer 200 with the path id and the submitted values; two
\* requests that made the same update got the same response.
C5_UpdateIdempotent ==
    /\ \A r \in Resources : \A id \in Ids(table[r]) :
         \A b \in {x \in Bodies : SchemaValid(x)} :
            LET m    == MovieCreate(b)
                n1   == Cardinality(Matching(table[r], id))
                t1   == Update(table[r], m, id)
                n2   == Cardinality(Matching(t1, id))
                t2   == Update(t1, m, id)
            IN /\ t2 = t1
               /\ update_movie(r, id, m, Tag("UPDATE", n1))
                    = [status |-> 200, body |-> Submitted(id, b)]
               /\ update_movie(r, id, m, Tag("UPDATE", n2))
                    = update_movie(r, id, m, Tag("UPDATE", n1))
    /\ \A h, g \in Handlers :
         (/\ pc[h] = "done" /\ pc[g] = "done" /\ req[h] = req[g]
          /\ req[h].op = "update" /\ resp[h].status = 200 /\ resp[g].status = 200)
         => resp[h] = resp[g]

\* Two requests made the same update of an existing row and both succeeded.
C5_Witness ==
    \E h, g \in Handlers :
        /\ h # g /\ pc[h] = "done" /\ pc[g] = "done" /\ req[h] = req[g]
        /\ req[h].op = "update" /\ resp[h].status = 200 /\ resp[g].status = 200
        /\ resp[h].body \in table[req[h].res]

\* C6: the list statement returns every row of the table exactly once, and
\* list answers 200 with as many objects, equal to the rows field by field;
\* on an empty table that is the empty sequence.
C6_ListStep(h) ==
    LET r == req[h].res IN
    /\ (Runs(h) /\ req[h].op = "list" /\ result'[h].kind # "error") =>
          /\ result'[h].kind = "rows"
          /\ Len(result'[h].rows) = Cardinality(table[r])
          /\ \A row \in table[r] :
                Cardinality({i \in DOMAIN result'[h].rows : result'[h].rows[i] = row}) = 1
          /\ table' = table
    /\ (Returns(h) /\ req[h].op = "list" /\ result[h].kind = "rows") =>
          /\ resp'[h].status = 200
          /\ Len(resp'[h].body) = Len(result[h].rows)
          /\ \A i \in DOMAIN result[h].rows : resp'[h].body[i] = result[h].rows[i]
          /\ (result[h].rows = <<>>) => (resp'[h].body = <<>>)

C6_ListReturnsEveryRowOnce == [][\A h \in Handlers : C6_ListStep(h)]_vars

\* A list of a table of two rows has answered with two objects.
C6_Witness ==
    \E h \in Handlers :
        /\ pc[h] = "done" /\ req[h].op = "list" /\ resp[h].status = 200
        /\ Len(resp[h].body) = 2
        /\ Cardinality(table[req[h].res]) = 2

\* A list of an empty table has answered 200 with the empty sequence.
C6_WitnessEmpty ==
    \E h \in Handlers :
        /\ pc[h] = "done" /\ req[h].op = "list" /\ resp[h].status = 200
        /\ resp[h].body = <<>>

Finished(h) == pc[h] \in {"idle", "done"}

\* C7: a handler holds at most one connection and runs at most one
\* statement; a finished request holds none and, unless its body was
\* rejected, has run exactly one statement, whether it answered 200, 404 or
\* 500; the pool's count of connections in use is the number of handlers
\* holding one, never above the pool's size, and zero once every request has
\* finished.
C7_ConnectionsReleased ==
    /\ \A h \in Handlers :
         /\ holds[h] \in {0, 1}
         /\ stmts[h] \in {0, 1}
         /\ Finished(h) => holds[h] = 0
         /\ (pc[h] = "done" /\ resp[h].status \in {200, 404, 500}) => stmts[h] = 1
         /\ (pc[h] = "done" /\ resp[h].status = 422) => stmts[h] = 0
         /\ stmts[h] = 1 => pc[h] \in {"executed", "done"}
    /\ inUse = Cardinality({h \in Handlers : holds[h] = 1})
    /\ inUse <= PoolSize
    /\ (\A h \in Handlers : Finished(h)) => inUse = 0

\* One request has ended in 404 and another in 500, and no connection is
\* checked out.
C7_Witness ==
    \E h, g \in Handlers :
        /\ pc[h] = "done" /\ resp[h].status = 404
        /\ pc[g] = "done" /\ resp[g].status = 500
        /\ inUse = 0

\* A create or update whose body lacks a field, or has a name or description
\* that is not a string, or a popularity that is neither an integer nor a
\* string of decimal digits.
Rejected(rq) ==
    /\ rq.op \in {"create", "update"}
    /\ \/ \E f \in {"name", "description", "popularity"} : f \notin DOMAIN rq.body
       \/ rq.body.name.t # "str"
       \/ rq.body.description.t # "str"
       \/ /\ rq.body.popularity.t # "int"
          /\ ~(rq.body.popularity.t = "str" /\ IsDecimal(rq.body.popularity.s))

\* C8 as amended: a create or update whose body fails validation is answered
\* 422 when it arrives, and that request acquires no connection, runs no
\* statement and changes no table.
C8_RejectedStep(h) ==
    /\ (Rejected(req'[h]) /\ (req'[h] # req[h] \/ pc'[h] # pc[h])) =>
          /\ pc'[h] = "done"
          /\ resp'[h].status = 422
          /\ stmts'[h] = 0
          /\ holds'[h] = 0
          /\ inUse' = inUse
          /\ table' = table
    /\ Rejected(req'[h]) => pc'[h] \in {"done"}

C9_PoolOpenWhileServing ==
    /\ \A h \in Handlers :
         (~Finished(h) \/ holds[h] > 0) => (pool = "open" /\ lifespanPc = "yielded")
    /\ listener = "on" => pool = "open"
    /\ listener = "off" => \A h \in Handlers : pc[h] = "idle"
    /\ pool = "closed" => /\ listener = "stopped"
                          /\ \A h \in Handlers : Finished(h)
                          /\ inUse = 0
    /\ closes = IF pool = "closed" THEN 1 ELSE 0

\* The pool is closed after requests were served.
C9_Witness ==
    /\ pool = "closed" /\ closes = 1
    /\ \E h \in Handlers : pc[h] = "done" /\ resp[h].status = 200

\* Ids whose row differs between two values of a table.
Changed(t1, t2) == Ids((t1 \ t2) \cup (t2 \ t1))

\* C10: a step changes at most one row of at most one table; a successful
\* update replaces exactly the row with the path id by the submitted values
\* and keeps the row count; a successful delete removes exactly that row;
\* list and get-by-id change nothing; an operation on one resource leaves
\* the other table alone; ids within a table stay pairwise distinct.
C10_StepFrame(h) ==
    LET r  == req[h].res
        id == req[h].id
    IN
    /\ (Runs(h) /\ req[h].op = "update" /\ result'[h] # [kind |-> "error"]
          /\ id \in Ids(table[r])) =>
          /\ Changed(table[r], table'[r]) \subseteq {id}
          /\ Movie(id, MovieCreate(req[h].body)) \in table'[r]
          /\ Ids(table'[r]) = Ids(table[r])
          /\ Cardinality(table'[r]) = Cardinality(table[r])
    /\ (Runs(h) /\ req[h].op = "delete" /\ result'[h] # [kind |-> "error"]
          /\ id \in Ids(table[r])) =>
          /\ table'[r] = table[r] \ Matching(table[r], id)
          /\ Cardinality(table'[r]) = Cardinality(table[r]) - 1
    /\ (Runs(h) /\ req[h].op \in {"list", "get"}) => table' = table
    /\ Runs(h) => \A o \in Resources \ {r} : table'[o] = table[o]
    /\ (pc'[h] # pc[h] /\ ~Runs(h)) => table' = table

C10_Frame ==
    /\ \A h \in Handlers : C10_StepFrame(h)
    /\ Cardinality({r \in Resources : table'[r] # table[r]}) <= 1
    /\ \A r \in Resources : Cardinality(Changed(table[r], table'[r])) <= 1
    /\ \A r \in Resources : \A row1, row2 \in table'[r] :
          row1.id = row2.id => row1 = row2

C10_OneRowOneTable == [][C10_Frame]_vars

\* An update of one of two rows has run while the other table has a row too.
C10_Witness ==
    \E h \in Handlers :
        /\ pc[h] = "executed" /\ req[h].op = "update"
        /\ result[h] = Tag("UPDATE", 1)
        /\ Cardinality(table[req[h].res]) = 2
        /\ \E row \in table[req[h].res] :
              row.id # req[h].id /\ row.name # MovieCreate(req[h].body).name
        /\ \A o \in Resources : table[o] # {}

====
